---- MODULE Spec2Model ----
(***************************************************************************)
(* A model of terraform-provider-ko: the ko_build resource (repository     *)
(* resolution, doBuild, doPublish with its MANIFEST_INVALID retry loop,    *)
(* Create and Read), the process-wide base-image cache, and the identity   *)
(* of a resolved manifest set.                                             *)
(***************************************************************************)
EXTENDS Integers, Sequences, FiniteSets, TLC

VARIABLES
    cfg,            \* resource + provider configuration and process environment
    id,             \* d.Id() of the ko_build resource
    imageRef,       \* the image_ref attribute
    pc,             \* "idle" | "publishing" | "sleeping" (position inside Create)
    opts,           \* buildOptions of the operation in progress / last run
    res,            \* digest of the build.Result handed to doPublish
    attempt,        \* doPublish's loop variable
    responses,      \* registry answers to the p.Publish calls of this operation
    blobs,          \* digests whose blobs the registry holds
    cnt,            \* per-operation call counters
    last,           \* outcome of the last finished operation
    fwData,         \* BuildResourceModel.repo / .bare after update() (framework generation)
    baseCache,      \* baseImages sync.Map: reference string -> entry
    remote,         \* what the registry currently serves for each base reference
    bpc,            \* per build goroutine: position inside the WithBaseImages callback
    bref,           \* per build goroutine: o.baseImage of the running lookup
    bdesc,          \* per build goroutine: descriptor returned by remote.Get
    bret,           \* per build goroutine: result of the last finished lookup
    fetches,        \* remote.Get calls made per reference string
    lookups,        \* callback invocations started per goroutine
    hitAtStart,     \* per goroutine: the entry was stored when the lookup began
    lateFetches,    \* remote.Get calls made by lookups that began after a Store of the string
    input,          \* two rewritten manifest streams (bytes written by ResolveFilesToWriter)
    resolved,       \* per stream: result of NewResolved + Resolved.ID()
    fwResolved,     \* per stream: result of Resolver.Resolve (ID field)
    lastCall,       \* the last call of a stateless operation: its name, inputs and results
    meta,           \* the *Opts every ko_resolve operation receives (SDK generation): bo, po
    koGoPath,       \* the KO_GO_PATH environment variable: at process start, and now
    opc,            \* per concurrent operation: "idle" | "resolving" | "building"
    oper,           \* per concurrent operation: its kind and its resource's configuration
    used            \* per concurrent operation: the options its build and publish ran with

buildVars == <<cfg, id, imageRef, pc, opts, res, attempt, responses, blobs, cnt, last, fwData>>
baseVars == <<baseCache, remote, bpc, bref, bdesc, bret, fetches, lookups, hitAtStart, lateFetches>>
resolveVars == <<input, resolved, fwResolved>>
auxVars == <<lastCall>>
procVars == <<meta, koGoPath, opc, oper, used>>
vars == <<buildVars, baseVars, resolveVars, auxVars, procVars>>

----------------------------------------------------------------------------
(* Bounds *)

NumDigests == 2
MaxLookups == 2
MaxDocs == 2

----------------------------------------------------------------------------
(* Values *)

Null == "<null>"

Digests == 1..NumDigests

NoRef == [name |-> <<>>, tag |-> "", digest |-> 0]

\* const zeroRef
zeroRef == [name |-> <<"example.com/zero">>, tag |-> "", digest |-> 0]

NoOpts == [ip |-> "", imageRepo |-> "", bare |-> FALSE, sbom |-> "",
           platforms |-> <<>>, tags |-> <<>>]

\* fresh: the registry did not hold the built image's blobs when doPublish began
ZeroCnt == [builders |-> 0, builds |-> 0, publishers |-> 0, publishCalls |-> 0,
            blobUploads |-> 0, manifestPushes |-> 0, sleeps |-> 0, slept |-> 0,
            fresh |-> FALSE]

----------------------------------------------------------------------------
(* Errors.  transport/codes model *transport.Error and its Errors[].Code;  *)
(* names lists the configuration sources an error message names.           *)

Err(kind) == [kind |-> kind, names |-> {}, transport |-> FALSE, codes |-> {}]

NoErr == Err("none")

\* errors.New("one of KO_DOCKER_REPO env var, or provider `repo`, or image resource `repo` must be set")
ErrRepoUnset == [Err("repo_unset") EXCEPT !.names = {"KO_DOCKER_REPO env var", "provider repo", "resource repo"}]

TransportErr(kind, codes) == [Err(kind) EXCEPT !.transport = TRUE, !.codes = codes]

\* Registry answers to one p.Publish call.  stage is how far the call got.
Responses == {
    [stage |-> "manifest", err |-> NoErr],
    [stage |-> "manifest", err |-> TransportErr("http_400", {"MANIFEST_INVALID"})],
    [stage |-> "manifest", err |-> TransportErr("http_400", {"MANIFEST_INVALID", "BLOB_UNKNOWN"})],
    [stage |-> "auth",     err |-> TransportErr("http_401", {"UNAUTHORIZED"})],
    [stage |-> "manifest", err |-> TransportErr("http_500", {})],
    [stage |-> "blob",     err |-> Err("network")] }

----------------------------------------------------------------------------
(* Configuration domains *)

ResRepos == {Null, "", "res"}
ProvRepos == {"", "prov"}
DockerRepos == {"", "dock"}
EnvRepos == {"", "env"}
Importpaths == {"cmd/a", "Cmd/X"}
Sboms == {"spdx", "none", "cyclonedx", "go.version-m", "bogus"}
\* the platforms and tags attributes: unset (Null), an explicitly empty list, or values
NullList == [null |-> TRUE, elems |-> <<>>]
List(elems) == [null |-> FALSE, elems |-> elems]
PlatformLists == {NullList, List(<<>>), List(<<"linux/arm64">>)}
TagLists == {NullList, List(<<"v1">>), List(<<"v1", "v2">>)}
Epochs == {"", "1234567890", "abc123"}

Configs == [resRepo : ResRepos, provRepo : ProvRepos, provDockerRepo : DockerRepos,
            envRepo : EnvRepos, ip : Importpaths, sbom : Sboms, epoch : Epochs,
            platforms : PlatformLists, tags : TagLists]

\* what b.Build / build.NewGo can come to, besides a digest
BuildOutcomes ==
    {[kind |-> "newgo_fail", digest |-> 0], [kind |-> "build_fail", digest |-> 0]}
        \cup {[kind |-> "built", digest |-> d] : d \in Digests}

----------------------------------------------------------------------------
(* Repository resolution: SDK generation (provider.go configure, fromData) *)

\* schema.EnvDefaultFunc("KO_DOCKER_REPO", ""): the attribute's value if configured, else the env var
EnvDefault(configured, env) == IF configured # "" THEN configured ELSE env

\* mutant: the environment variable consulted before the provider's repo option
configure_EnvFirst(c) ==
    [DockerRepo |-> IF c.envRepo # "" THEN c.envRepo
                    ELSE IF c.provRepo # "" THEN c.provRepo ELSE c.provDockerRepo]

configure(c) ==
    LET repo == EnvDefault(c.provRepo, c.envRepo)
        koDockerRepo == IF repo = "" THEN EnvDefault(c.provDockerRepo, c.envRepo) ELSE repo
    IN  [DockerRepo |-> koDockerRepo]

\* LoadConfig is taken to succeed; the Opts handed to the resource are those of configure
NewProviderOpts(c) == configure(c)

\* d.Get("repo").(string): an unset attribute reads as its default ""
Get(v) == IF v = Null THEN "" ELSE v

\* toStringSlice(d.Get(key).([]interface{})): an unset list attribute reads as the empty list
GetList(v) == v.elems

defaultPlatform(in) == IF Len(in) = 0 THEN <<"linux/amd64">> ELSE in

fromData(c, po) ==
    LET r == Get(c.resRepo)
    IN  [ip        |-> c.ip,
         imageRepo |-> IF r # "" THEN r ELSE po.DockerRepo,
         bare      |-> r # "",
         sbom      |-> c.sbom,
         platforms |-> defaultPlatform(GetList(c.platforms)),
         tags      |-> GetList(c.tags)]

(* Repository resolution: framework generation (Provider.Configure, update) *)

FwConfigure(c) == [repo |-> c.provRepo]

\* mutant: the environment variable consulted before the provider's repo option
update_EnvFirst(resRepo, popts, env) ==
    IF resRepo # Null THEN [repo |-> resRepo, bare |-> TRUE]
    ELSE IF env # "" THEN [repo |-> env, bare |-> FALSE]
    ELSE [repo |-> popts.repo, bare |-> FALSE]

update(resRepo, popts, env) ==
    IF resRepo # Null THEN [repo |-> resRepo, bare |-> TRUE]
    ELSE IF popts.repo # "" THEN [repo |-> popts.repo, bare |-> FALSE]
    ELSE [repo |-> env, bare |-> FALSE]

NoFw == [repo |-> Null, bare |-> FALSE]

----------------------------------------------------------------------------
(* Naming and building *)

\* mutant: the import path appended whatever the naming policy
namer_AlwaysQualified(o) == <<o.imageRepo, o.ip>>

\* options.MakeNamer with Bare: opts.bare, PreserveImportPaths: !opts.bare
namer(o) == IF o.bare THEN <<o.imageRepo>> ELSE <<o.imageRepo, o.ip>>

\* name.ParseReference: a repository path must be lower case
LowerCase == {"", "res", "prov", "dock", "env", "cmd/a", "example.com/zero"}

ParsesAsReference(n) == \A i \in 1..Len(n) : n[i] \in LowerCase

\* mutant: the four modes of the earlier generations
validTypes_FourModes == {"spdx", "none", "cyclonedx", "go.version-m"}

validTypes == {"spdx", "none"}

\* strconv.ParseInt(epoch, 10, 64) succeeds
ParsesAsInt(epoch) == epoch \in {"1234567890"}

makeBuilder(o, epoch, outcome) ==
    IF o.sbom \notin validTypes THEN Err("unknown_sbom")
    ELSE IF epoch # "" /\ ~ParsesAsInt(epoch) THEN Err("bad_source_date_epoch")
    ELSE IF outcome.kind = "newgo_fail" THEN Err("newgo")
    ELSE NoErr

BuildFailed(e, builders, builds) ==
    [err |-> e, res |-> 0, ref |-> NoRef, builders |-> builders, builds |-> builds]

doBuild(o, epoch, outcome) ==
    IF o.imageRepo = "" THEN BuildFailed(ErrRepoUnset, 0, 0)
    ELSE IF makeBuilder(o, epoch, outcome) # NoErr
        THEN BuildFailed(makeBuilder(o, epoch, outcome), 0, 0)
    ELSE IF outcome.kind = "build_fail" THEN BuildFailed(Err("build"), 1, 1)
    ELSE IF ~ParsesAsReference(namer(o)) THEN BuildFailed(Err("parse_reference"), 1, 1)
    ELSE [err |-> NoErr, res |-> outcome.digest,
          ref |-> [name |-> namer(o), tag |-> "", digest |-> outcome.digest],
          builders |-> 1, builds |-> 1]

----------------------------------------------------------------------------
(* doPublish *)

maxAttempts == 3

\* const retryDelay = time.Second, in seconds
retryDelay == 1

isManifestInvalidError(err) == err.transport /\ "MANIFEST_INVALID" \in err.codes

\* mutants of the loop's test: one attempt too few, every error retried, one attempt too many
GiveUp_TooEarly(err, n) == ~isManifestInvalidError(err) \/ n >= maxAttempts - 1

GiveUp_RetryAnyError(err, n) == n >= maxAttempts

GiveUp_OneMore(err, n) == ~isManifestInvalidError(err) \/ n > maxAttempts

\* the test of doPublish's loop that ends it with "publish failed"
GiveUp(err, n) == ~isManifestInvalidError(err) \/ n >= maxAttempts

\* One p.Publish(ctx, r, opts.ip) call of the ko publisher against the registry:
\* an existence check per blob, an upload of the blobs the registry lacks,
\* then the manifest PUT.  resp is the registry's answer to this call.
Publish(r, resp, held) ==
    LET uploads == IF resp.stage \in {"blob", "manifest"} /\ r \notin held THEN 1 ELSE 0
        pushes  == IF resp.stage = "manifest" THEN 1 ELSE 0
    IN  [err     |-> resp.err,
         uploads |-> uploads,
         pushes  |-> pushes,
         blobs   |-> IF resp.stage = "manifest" THEN held \cup {r} ELSE held]

\* the reference p.Publish returns, as ref.String(): the name and the digest,
\* with the tag between them when exactly one tag is configured
PublishedReference(o, r) ==
    [name |-> namer(o), tag |-> IF Len(o.tags) = 1 THEN o.tags[1] ELSE "", digest |-> r]

Running(op) == [op |-> op, done |-> FALSE, severity |-> "none", err |-> NoErr]

Finished(op, severity, err) == [op |-> op, done |-> TRUE, severity |-> severity, err |-> err]

----------------------------------------------------------------------------
(* ko_build resource: resourceKoBuildCreate, resourceKoBuildRead *)

\* Create up to the first p.Publish call: NewProviderOpts, fromData, doBuild,
\* and doPublish's set-up (publish.NewDefault).
CreateBuild ==
    /\ pc = "idle"
    /\ id = NoRef
    /\ \E outcome \in BuildOutcomes, newDefaultOk \in BOOLEAN :
        LET o == fromData(cfg, NewProviderOpts(cfg))
            b == doBuild(o, cfg.epoch, outcome)
        IN  /\ opts' = o
            /\ responses' = <<>>
            /\ attempt' = 1
            /\ IF b.err # NoErr
                 THEN /\ last' = Finished("create", "error", b.err)
                      /\ cnt' = [ZeroCnt EXCEPT !.builders = b.builders, !.builds = b.builds]
                      /\ pc' = "idle"
                      /\ res' = 0
               ELSE IF ~newDefaultOk
                 THEN /\ last' = Finished("create", "error", Err("new_default"))
                      /\ cnt' = [ZeroCnt EXCEPT !.builders = b.builders, !.builds = b.builds]
                      /\ pc' = "idle"
                      /\ res' = 0
               ELSE /\ last' = Running("create")
                    /\ cnt' = [ZeroCnt EXCEPT !.builders = b.builders, !.builds = b.builds,
                                              !.publishers = 1, !.fresh = b.res \notin blobs]
                    /\ pc' = "publishing"
                    /\ res' = b.res
    /\ UNCHANGED <<cfg, id, imageRef, blobs, fwData>>
    /\ UNCHANGED <<baseVars, resolveVars, auxVars, procVars>>

\* mutant: Create stores the reference although doPublish gave up
PublishAttempt_StoresOnFailure ==
    /\ pc = "publishing"
    /\ \E resp \in Responses :
        LET call == Publish(res, resp, blobs)
            ref  == PublishedReference(opts, res)
        IN  /\ responses' = Append(responses, resp)
            /\ blobs' = call.blobs
            /\ cnt' = [cnt EXCEPT !.publishCalls = @ + 1,
                                  !.blobUploads = @ + call.uploads,
                                  !.manifestPushes = @ + call.pushes]
            /\ IF call.err = NoErr
                 THEN /\ imageRef' = ref
                      /\ id' = ref
                      /\ pc' = "idle"
                      /\ last' = Finished("create", "none", NoErr)
               ELSE IF GiveUp(call.err, attempt)
                 THEN /\ pc' = "idle"
                      /\ last' = Finished("create", "error", call.err)
                      /\ imageRef' = ref
                      /\ id' = ref
               ELSE /\ pc' = "sleeping"
                    /\ UNCHANGED <<id, imageRef, last>>
    /\ UNCHANGED <<cfg, opts, res, attempt, fwData>>
    /\ UNCHANGED <<baseVars, resolveVars, auxVars, procVars>>

\* One iteration of doPublish's loop: p.Publish and the classification of its error.
\* On success doPublish returns ref.String() and Create stores it.
PublishAttempt ==
    /\ pc = "publishing"
    /\ \E resp \in Responses :
        LET call == Publish(res, resp, blobs)
            ref  == PublishedReference(opts, res)
        IN  /\ responses' = Append(responses, resp)
            /\ blobs' = call.blobs
            /\ cnt' = [cnt EXCEPT !.publishCalls = @ + 1,
                                  !.blobUploads = @ + call.uploads,
                                  !.manifestPushes = @ + call.pushes]
            /\ IF call.err = NoErr
                 THEN /\ imageRef' = ref
                      /\ id' = ref
                      /\ pc' = "idle"
                      /\ last' = Finished("create", "none", NoErr)
               ELSE IF GiveUp(call.err, attempt)
                 THEN /\ pc' = "idle"
                      /\ last' = Finished("create", "error", call.err)
                      /\ UNCHANGED <<id, imageRef>>
               ELSE /\ pc' = "sleeping"
                    /\ UNCHANGED <<id, imageRef, last>>
    /\ UNCHANGED <<cfg, opts, res, attempt, fwData>>
    /\ UNCHANGED <<baseVars, resolveVars, auxVars, procVars>>

\* time.Sleep(retryDelay) and the loop's attempt++
PublishSleep ==
    /\ pc = "sleeping"
    /\ cnt' = [cnt EXCEPT !.sleeps = @ + 1, !.slept = @ + retryDelay]
    /\ attempt' = attempt + 1
    /\ pc' = "publishing"
    /\ UNCHANGED <<cfg, id, imageRef, opts, res, responses, blobs, last, fwData>>
    /\ UNCHANGED <<baseVars, resolveVars, auxVars, procVars>>

\* mutant: a failed build fails Read and leaves the stored ID alone
Read_HardFail ==
    /\ pc = "idle"
    /\ id # NoRef
    /\ \E outcome \in BuildOutcomes :
        LET o   == fromData(cfg, NewProviderOpts(cfg))
            b   == doBuild(o, cfg.epoch, outcome)
        IN  /\ opts' = o
            /\ imageRef' = IF b.err # NoErr THEN imageRef ELSE b.ref
            /\ id' = IF b.err # NoErr THEN id ELSE IF b.ref # id THEN NoRef ELSE b.ref
            /\ last' = IF b.err # NoErr THEN Finished("read", "error", b.err)
                       ELSE Finished("read", "none", NoErr)
            /\ cnt' = [ZeroCnt EXCEPT !.builders = b.builders, !.builds = b.builds]
            /\ responses' = <<>>
            /\ attempt' = 0
            /\ res' = 0
    /\ UNCHANGED <<cfg, pc, blobs, fwData>>
    /\ UNCHANGED <<baseVars, resolveVars, auxVars, procVars>>

\* mutant: Read writes image_ref and never clears the ID
Read_KeepsID ==
    /\ pc = "idle"
    /\ id # NoRef
    /\ \E outcome \in BuildOutcomes :
        LET o   == fromData(cfg, NewProviderOpts(cfg))
            b   == doBuild(o, cfg.epoch, outcome)
            ref == IF b.err # NoErr THEN zeroRef ELSE b.ref
        IN  /\ opts' = o
            /\ imageRef' = ref
            /\ id' = id
            /\ last' = IF b.err # NoErr THEN Finished("read", "warning", b.err)
                       ELSE Finished("read", "none", NoErr)
            /\ cnt' = [ZeroCnt EXCEPT !.builders = b.builders, !.builds = b.builds]
            /\ responses' = <<>>
            /\ attempt' = 0
            /\ res' = 0
    /\ UNCHANGED <<cfg, pc, blobs, fwData>>
    /\ UNCHANGED <<baseVars, resolveVars, auxVars, procVars>>

\* mutant: Read publishes what it built, as Create does
Read_Publishes ==
    /\ pc = "idle"
    /\ id # NoRef
    /\ \E outcome \in BuildOutcomes, resp \in Responses :
        LET o    == fromData(cfg, NewProviderOpts(cfg))
            b    == doBuild(o, cfg.epoch, outcome)
            ref  == IF b.err # NoErr THEN zeroRef ELSE b.ref
            call == Publish(b.res, resp, blobs)
        IN  /\ opts' = o
            /\ imageRef' = ref
            /\ id' = IF ref # id \/ ref = zeroRef THEN NoRef ELSE ref
            /\ last' = IF b.err # NoErr THEN Finished("read", "warning", b.err)
                       ELSE Finished("read", "none", NoErr)
            /\ cnt' = IF b.err # NoErr
                      THEN [ZeroCnt EXCEPT !.builders = b.builders, !.builds = b.builds]
                      ELSE [ZeroCnt EXCEPT !.builders = b.builders, !.builds = b.builds,
                                           !.publishers = 1, !.publishCalls = 1,
                                           !.blobUploads = call.uploads,
                                           !.manifestPushes = call.pushes]
            /\ blobs' = IF b.err # NoErr THEN blobs ELSE call.blobs
            /\ responses' = <<>>
            /\ attempt' = 0
            /\ res' = 0
    /\ UNCHANGED <<cfg, pc, fwData>>
    /\ UNCHANGED <<baseVars, resolveVars, auxVars, procVars>>

\* resourceKoBuildRead
Read ==
    /\ pc = "idle"
    /\ id # NoRef
    /\ \E outcome \in BuildOutcomes :
        LET o   == fromData(cfg, NewProviderOpts(cfg))
            b   == doBuild(o, cfg.epoch, outcome)
            ref == IF b.err # NoErr THEN zeroRef ELSE b.ref
        IN  /\ opts' = o
            /\ imageRef' = ref
            /\ id' = IF ref # id \/ ref = zeroRef THEN NoRef ELSE ref
            /\ last' = IF b.err # NoErr THEN Finished("read", "warning", b.err)
                       ELSE Finished("read", "none", NoErr)
            /\ cnt' = [ZeroCnt EXCEPT !.builders = b.builders, !.builds = b.builds]
            /\ responses' = <<>>
            /\ attempt' = 0
            /\ res' = 0
    /\ UNCHANGED <<cfg, pc, blobs, fwData>>
    /\ UNCHANGED <<baseVars, resolveVars, auxVars, procVars>>

\* BuildResourceModel.update applied to the same configuration (framework generation)
FwUpdate ==
    /\ fwData = NoFw
    /\ fwData' = update(cfg.resRepo, FwConfigure(cfg), cfg.envRepo)
    /\ UNCHANGED <<cfg, id, imageRef, pc, opts, res, attempt, responses, blobs, cnt, last>>
    /\ UNCHANGED <<baseVars, resolveVars, auxVars, procVars>>

\* what the host's state file holds when the process starts: nothing, or the
\* reference a Create of an earlier run stored (under the configuration of that run)
PriorRefs == {NoRef, [name |-> <<"env", "cmd/a">>, tag |-> "", digest |-> 1]}

BuildInit ==
    /\ cfg \in Configs
    /\ id \in PriorRefs
    /\ imageRef = id
    /\ pc = "idle"
    /\ opts = NoOpts
    /\ res = 0
    /\ attempt = 0
    /\ responses = <<>>
    /\ blobs = {}
    /\ cnt = ZeroCnt
    /\ last = Finished("none", "none", NoErr)
    /\ fwData = NoFw

BuildNext == CreateBuild \/ PublishAttempt \/ PublishSleep \/ Read \/ FwUpdate

----------------------------------------------------------------------------
(* The base-image cache: the WithBaseImages callback of makeBuilder, run by *)
(* concurrent build operations of one process.                             *)

\* the build operations the host runs concurrently
Procs == {"op1", "op2"}

GoodRefs == {"cgr.dev/chainguard/static", "example.com/base:latest"}

BaseRefs == GoodRefs \cup {"NOT A REF"}

MediaTypes == {"image", "index", "other"}

NoEntry == [present |-> FALSE, kind |-> "none", val |-> "none"]

\* a nil v1.Image / v1.ImageIndex
Nil == "nil"

NoDesc == [mediaType |-> "none", version |-> "none"]

NoRet == [kind |-> "none", val |-> "none"]

\* name.ParseReference(o.baseImage) succeeds
ParsesAsBase(s) == s \in GoodRefs

\* mutant: the cache is never consulted
Load_AlwaysMiss(cache, s) == NoEntry

\* baseImages.Load(o.baseImage)
Load(cache, s) == cache[s]

\* A build operation invokes the callback with its o.baseImage: ParseReference
BaseStart(p, s) ==
    /\ bpc[p] = "idle"
    /\ lookups[p] < MaxLookups
    /\ lookups' = [lookups EXCEPT ![p] = @ + 1]
    /\ bref' = [bref EXCEPT ![p] = s]
    /\ IF ParsesAsBase(s)
         THEN /\ bpc' = [bpc EXCEPT ![p] = "load"]
              /\ hitAtStart' = [hitAtStart EXCEPT ![p] = baseCache[s].present]
              /\ bret' = [bret EXCEPT ![p] = NoRet]
         ELSE /\ bret' = [bret EXCEPT ![p] = [kind |-> "error", val |-> Nil]]
              /\ hitAtStart' = [hitAtStart EXCEPT ![p] = FALSE]
              /\ UNCHANGED bpc
    /\ UNCHANGED <<baseCache, remote, bdesc, fetches, lateFetches>>
    /\ UNCHANGED <<buildVars, resolveVars, auxVars, procVars>>

\* if cached, found := baseImages.Load(o.baseImage); found { return ref, cached.(build.Result), nil }
\* A stored nil image makes the type assertion panic.
BaseLoad(p) ==
    /\ bpc[p] = "load"
    /\ LET e == Load(baseCache, bref[p])
       IN  IF e.present
             THEN /\ bpc' = [bpc EXCEPT ![p] = "idle"]
                  /\ bret' = [bret EXCEPT ![p] =
                        IF e.val = Nil THEN [kind |-> "panic", val |-> Nil]
                        ELSE [kind |-> "cached", val |-> e.val]]
             ELSE /\ bpc' = [bpc EXCEPT ![p] = "get"]
                  /\ UNCHANGED bret
    /\ UNCHANGED <<baseCache, remote, bref, bdesc, fetches, lookups, hitAtStart, lateFetches>>
    /\ UNCHANGED <<buildVars, resolveVars, auxVars, procVars>>

\* desc, err := remote.Get(ref, ...)
BaseGet(p) ==
    /\ bpc[p] = "get"
    /\ fetches' = [fetches EXCEPT ![bref[p]] = @ + 1]
    /\ lateFetches' = [lateFetches EXCEPT ![bref[p]] = IF hitAtStart[p] THEN @ + 1 ELSE @]
    /\ \E ok \in BOOLEAN :
        IF ok
          THEN /\ bdesc' = [bdesc EXCEPT ![p] = remote[bref[p]]]
               /\ bpc' = [bpc EXCEPT ![p] = "store"]
               /\ UNCHANGED bret
          ELSE /\ bret' = [bret EXCEPT ![p] = [kind |-> "error", val |-> Nil]]
               /\ bpc' = [bpc EXCEPT ![p] = "idle"]
               /\ UNCHANGED bdesc
    /\ UNCHANGED <<baseCache, remote, bref, lookups, hitAtStart>>
    /\ UNCHANGED <<buildVars, resolveVars, auxVars, procVars>>

\* img, err := desc.Image(); baseImages.Store(o.baseImage, img); return ref, img, err
\* (and the same for an index); any other media type is an error and stores nothing.
BaseStore(p) ==
    /\ bpc[p] = "store"
    /\ bpc' = [bpc EXCEPT ![p] = "idle"]
    /\ bdesc' = [bdesc EXCEPT ![p] = NoDesc]
    /\ IF bdesc[p].mediaType \in {"image", "index"}
         THEN \E ok \in BOOLEAN :
                LET v == IF ok THEN bdesc[p].version ELSE Nil
                IN  /\ baseCache' = [baseCache EXCEPT ![bref[p]] =
                            [present |-> TRUE, kind |-> bdesc[p].mediaType, val |-> v]]
                    /\ bret' = [bret EXCEPT ![p] =
                            IF ok THEN [kind |-> "fetched", val |-> v]
                            ELSE [kind |-> "error", val |-> Nil]]
         ELSE /\ bret' = [bret EXCEPT ![p] = [kind |-> "error", val |-> Nil]]
              /\ UNCHANGED baseCache
    /\ UNCHANGED <<remote, bref, fetches, lookups, hitAtStart, lateFetches>>
    /\ UNCHANGED <<buildVars, resolveVars, auxVars, procVars>>

\* Someone pushes a new image under the same tag
RemotePush(s) ==
    /\ remote[s].version = "v1"
    /\ remote' = [remote EXCEPT ![s].version = "v2"]
    /\ UNCHANGED <<baseCache, bpc, bref, bdesc, bret, fetches, lookups, hitAtStart, lateFetches>>
    /\ UNCHANGED <<buildVars, resolveVars, auxVars, procVars>>

BaseInit ==
    /\ baseCache = [s \in GoodRefs |-> NoEntry]
    /\ \E m \in MediaTypes :
         remote = [s \in GoodRefs |->
                     [mediaType |-> IF s = "example.com/base:latest" THEN "index" ELSE m,
                      version |-> "v1"]]
    /\ bpc = [p \in Procs |-> "idle"]
    /\ bref = [p \in Procs |-> "cgr.dev/chainguard/static"]
    /\ bdesc = [p \in Procs |-> NoDesc]
    /\ bret = [p \in Procs |-> NoRet]
    /\ fetches = [s \in GoodRefs |-> 0]
    /\ lookups = [p \in Procs |-> 0]
    /\ hitAtStart = [p \in Procs |-> FALSE]
    /\ lateFetches = [s \in GoodRefs |-> 0]

BaseNext ==
    \/ \E p \in Procs, s \in BaseRefs : BaseStart(p, s)
    \/ \E p \in Procs : BaseLoad(p)
    \/ \E p \in Procs : BaseGet(p)
    \/ \E p \in Procs : BaseStore(p)
    \/ \E s \in GoodRefs : RemotePush(s)

----------------------------------------------------------------------------
(* Resolved manifests and their identity.  A manifest stream is a sequence  *)
(* of tokens; "---" separates documents, " " and "#c" are formatting        *)
(* (whitespace, comments), "~" is the null document, "{" does not parse.    *)

Sep == "---"

Formatting == {" ", "#c"}

RawDocs == { <<"a:", "1">>, <<"a:", " ", "1", "#c">>, <<"a:", "2">>, <<" ", "~">>, <<"{">> }

RECURSIVE SeqsUpTo(_, _)
SeqsUpTo(S, n) ==
    IF n = 0 THEN {<<>>}
    ELSE SeqsUpTo(S, n - 1) \cup {Append(q, x) : q \in {r \in SeqsUpTo(S, n - 1) : Len(r) = n - 1}, x \in S}

\* the documents a resolve operation writes, in order
DocLists == SeqsUpTo(RawDocs, MaxDocs)

\* commands.ResolveFilesToWriter: the documents written to one buffer, "---" between them
RECURSIVE ResolveFilesToWriter(_)
ResolveFilesToWriter(ds) ==
    IF ds = <<>> THEN <<>>
    ELSE IF Len(ds) = 1 THEN ds[1]
    ELSE ds[1] \o <<Sep>> \o ResolveFilesToWriter(Tail(ds))

RECURSIVE FirstSep(_, _)
FirstSep(buf, i) ==
    IF i > Len(buf) THEN i
    ELSE IF buf[i] = Sep THEN i
    ELSE FirstSep(buf, i + 1)

\* decoder.Decode(&d): reads the next document off the buffer into an interface{}
\* (formatting is lost; a null document decodes to nil)
Decode(buf) ==
    LET k   == FirstSep(buf, 1)
        doc == SelectSeq(SubSeq(buf, 1, k - 1), LAMBDA t : t \notin Formatting)
    IN  [rest |-> SubSeq(buf, k + 1, Len(buf)),
         err  |-> \E i \in 1..Len(doc) : doc[i] = "{",
         nil  |-> doc \in {<<>>, <<"~">>},
         val  |-> doc]

\* yaml.NewEncoder(&buf).Encode(&d): "key: value\n"
Encode(v) == <<v[1], " ", v[2], "\n">>

\* mutant: the documents decoded before a failure are kept
RECURSIVE SplitDocs_KeepsPartial(_, _)
SplitDocs_KeepsPartial(buf, manifests) ==
    IF buf = <<>> THEN [err |-> FALSE, manifests |-> manifests, unread |-> buf]
    ELSE LET d == Decode(buf)
         IN  IF d.err THEN [err |-> TRUE, manifests |-> manifests, unread |-> d.rest]
             ELSE IF d.nil THEN SplitDocs_KeepsPartial(d.rest, manifests)
             ELSE SplitDocs_KeepsPartial(d.rest, Append(manifests, Encode(d.val)))

\* the decode loop shared by NewResolved and Resolver.Resolve; unread is what
\* the decoder left in the buffer when it returned io.EOF
RECURSIVE SplitDocs(_, _)
SplitDocs(buf, manifests) ==
    IF buf = <<>> THEN [err |-> FALSE, manifests |-> manifests, unread |-> buf]
    ELSE LET d == Decode(buf)
         IN  IF d.err THEN [err |-> TRUE, manifests |-> <<>>, unread |-> d.rest]
             ELSE IF d.nil THEN SplitDocs(d.rest, manifests)
             ELSE SplitDocs(d.rest, Append(manifests, Encode(d.val)))

\* strings.Join(r.Manifests, "\n---\n")
RECURSIVE Join(_)
Join(ms) ==
    IF ms = <<>> THEN <<>>
    ELSE IF Len(ms) = 1 THEN ms[1]
    ELSE ms[1] \o <<"\n---\n">> \o Join(Tail(ms))

\* sha256.Sum256, taken to be collision free
sha256(bytes) == <<"sha256">> \o bytes

\* mutant: the stream cut at its separators (a strings.Split), nothing decoded
RECURSIVE StringsSplit(_)
StringsSplit(buf) ==
    IF buf = <<>> THEN <<>>
    ELSE LET k == FirstSep(buf, 1)
         IN  <<SubSeq(buf, 1, k - 1)>> \o StringsSplit(SubSeq(buf, k + 1, Len(buf)))

NewResolved_StringsSplit(data) ==
    [done |-> TRUE, err |-> SplitDocs(data, <<>>).err, Manifests |-> StringsSplit(data)]

NewResolved(data) ==
    LET r == SplitDocs(data, <<>>)
    IN  [done |-> TRUE, err |-> r.err, Manifests |-> r.manifests]

\* func (r *Resolved) ID() string
ID(r) == sha256(Join(r.Manifests))

\* Resolver.Resolve (framework generation and the first SDK generation): the
\* decoder reads resolveBuf itself, and the ID is the hash of resolveBuf.Bytes()
\* taken after the decode loop
Resolve(ds) ==
    LET resolveBuf == ResolveFilesToWriter(ds)
        r          == SplitDocs(resolveBuf, <<>>)
    IN  [done |-> TRUE, err |-> r.err, Manifests |-> r.manifests,
         ID |-> IF r.err THEN <<>> ELSE sha256(r.unread)]

NotResolved == [done |-> FALSE, err |-> FALSE, Manifests |-> <<>>]

NotFwResolved == [done |-> FALSE, err |-> FALSE, Manifests |-> <<>>, ID |-> <<>>]

\* resolver.Resolve of the generation with NewResolved: return NewResolved(resolveBuf.Bytes())
ApplyNewResolved(i) ==
    /\ ~resolved[i].done
    /\ resolved' = [resolved EXCEPT ![i] = NewResolved(ResolveFilesToWriter(input[i]))]
    /\ UNCHANGED <<input, fwResolved>>
    /\ UNCHANGED <<buildVars, baseVars, auxVars, procVars>>

ApplyResolve(i) ==
    /\ ~fwResolved[i].done
    /\ fwResolved' = [fwResolved EXCEPT ![i] = Resolve(input[i])]
    /\ UNCHANGED <<input, resolved>>
    /\ UNCHANGED <<buildVars, baseVars, auxVars, procVars>>

ResolveInit ==
    /\ input \in [1..2 -> DocLists]
    /\ resolved = [i \in 1..2 |-> NotResolved]
    /\ fwResolved = [i \in 1..2 |-> NotFwResolved]

ResolveNext ==
    \/ \E i \in 1..2 : ApplyNewResolved(i)
    \/ \E i \in 1..2 : ApplyResolve(i)

----------------------------------------------------------------------------
(* Stateless operations: the static keychain, platform defaulting, the dry  *)
(* resolver and the logging transport.  lastCall records the last one run.      *)

NoCall == [op |-> "none", in |-> <<>>, out |-> <<>>]

Called(op, in, out) == [op |-> op, in |-> in, out |-> out]

(* staticKeychain.  A repository is its path components; a registry host is *)
(* a first component with a '.' or a ':' in it, followed by a path.         *)

RegistryHosts == {"gcr.io", "ghcr.io", "localhost:5000"}

\* name.DefaultRegistry
DefaultRegistry == "index.docker.io"

KeychainRepos ==
    { <<"gcr.io", "proj">>, <<"ghcr.io", "org">>, <<"localhost:5000", "x">>,
      <<"user", "app">>, <<"gcr.io">>, <<"GCR.io", "Proj">> }

\* the hosts a registry client asks credentials for (authn.Resource.RegistryStr())
ResourceHosts == {"gcr.io", "ghcr.io", "localhost:5000", "index.docker.io", "gcr.io.evil.example"}

\* name.ParseReference(k.repo) and ref.Context().RegistryStr()
ParseRepo(repo) ==
    IF \E i \in 1..Len(repo) : repo[i] \in {"GCR.io", "Proj"}
    THEN [err |-> TRUE, registry |-> ""]
    ELSE [err |-> FALSE,
          registry |-> IF Len(repo) > 1 /\ repo[1] \in RegistryHosts THEN repo[1]
                       ELSE DefaultRegistry]

Anonymous == [kind |-> "anonymous", username |-> "", password |-> ""]

\* staticAuthenticator{k.b}.Authorization()
staticAuthenticator(b) == [kind |-> "static", username |-> b.username, password |-> b.password]

\* mutant: the configured credentials whatever the host
staticKeychain_Resolve_AnyHost(repo, b, host) ==
    IF ParseRepo(repo).err THEN [err |-> TRUE, auth |-> Anonymous]
    ELSE [err |-> FALSE, auth |-> staticAuthenticator(b)]

staticKeychain_Resolve(repo, b, host) ==
    IF ParseRepo(repo).err THEN [err |-> TRUE, auth |-> Anonymous]
    ELSE IF host = ParseRepo(repo).registry THEN [err |-> FALSE, auth |-> staticAuthenticator(b)]
    ELSE [err |-> FALSE, auth |-> Anonymous]

\* the ambient keychain (authn.DefaultKeychain and the cloud helpers): its own
\* credentials for the hosts it knows, never the configured pair
Ambient(host) ==
    IF host = "ghcr.io" THEN [kind |-> "ambient", username |-> "token", password |-> "ambient-secret"]
    ELSE Anonymous

NoBasic == [set |-> FALSE, username |-> "", password |-> ""]

Basic == [set |-> TRUE, username |-> "user", password |-> "hunter2"]

\* kc of doPublish / makeBuilder: keychain, or authn.NewMultiKeychain(staticKeychain{repo, auth}, keychain),
\* which asks each keychain in turn and takes the first answer that is not Anonymous
MultiKeychain(repo, b, host) ==
    IF ~b.set THEN [err |-> FALSE, auth |-> Ambient(host)]
    ELSE LET first == staticKeychain_Resolve(repo, b, host)
         IN  IF first.err THEN first
             ELSE IF first.auth # Anonymous THEN first
             ELSE [err |-> FALSE, auth |-> Ambient(host)]

KeychainResolve ==
    \E repo \in KeychainRepos, b \in {NoBasic, Basic}, host \in ResourceHosts :
        /\ lastCall' = Called("Resolve", [repo |-> repo, basic |-> b, host |-> host],
                          MultiKeychain(repo, b, host))
        /\ UNCHANGED <<buildVars, baseVars, resolveVars, procVars>>

(* Platform defaulting in the three places that hand platforms to a builder *)

\* framework makeBuilder: only a null list is replaced
FwMakeBuilderPlatforms(p) == IF p.null THEN <<"linux/amd64">> ELSE p.elems

\* framework ko_resolve: the schema's Default replaces a null list before
\* NewResolver reads it with ElementsAs
FwNewResolverPlatforms(p) == IF p.null THEN <<"linux/amd64">> ELSE p.elems

HandPlatforms ==
    \E p \in PlatformLists, site \in {"fromData", "makeBuilder", "NewResolver"} :
        /\ lastCall' = Called("WithPlatforms", [site |-> site, platforms |-> p],
                          CASE site = "fromData"    -> defaultPlatform(GetList(p))
                            [] site = "makeBuilder" -> FwMakeBuilderPlatforms(p)
                            [] site = "NewResolver" -> FwNewResolverPlatforms(p))
        /\ UNCHANGED <<buildVars, baseVars, resolveVars, procVars>>

(* The resolvers of ko_resolve and of the ko_dry_resolve data source *)

KoRefs == {"ko://example.com/cmd/a", "ko://example.com/cmd/b", "ko://example.com/Cmd/X"}

\* the ko:// references of the manifests a resolve reads, in order
RefLists == SeqsUpTo(KoRefs, 2)

\* name.ParseReference(ip): upper case is refused; the reference keeps the string it was parsed from
name_ParseReference(ip) ==
    IF ip = "ko://example.com/Cmd/X" THEN [err |-> TRUE, original |-> ""]
    ELSE [err |-> FALSE, original |-> ip]

\* name.Reference.String()
String(ref) == ref.original

\* emptyBuilder.Build
emptyBuilder_Build(ip) == [err |-> FALSE, image |-> "empty.Image"]

\* emptyPublisher.Publish
emptyPublisher_Publish(result, ip) == name_ParseReference(ip)

\* commands.ResolveFilesToWriter over the references, given what its builder
\* built and its publisher published for each: each reference is replaced
\* by the published reference; the first error ends it
ResolveRefs(refs, built, published) ==
    LET failed    == \E i \in 1..Len(refs) : built[i].err \/ published[i].err
    IN  [err    |-> failed,
         images |-> IF failed THEN <<>> ELSE [i \in 1..Len(refs) |-> built[i].image],
         refs   |-> IF failed THEN <<>> ELSE [i \in 1..Len(refs) |-> String(published[i])]]

\* what commands.NewBuilder's builder and commands.NewPublisher's publisher do
gobuild_Build(ip) == [err |-> FALSE, image |-> <<"image of", ip>>]

default_Publish(result, ip) ==
    IF name_ParseReference(ip).err THEN [err |-> TRUE, original |-> ""]
    ELSE [err |-> FALSE, original |-> "example.com/repo/app@sha256:digest"]

\* resolver.Resolve
resolver_Resolve(refs) ==
    LET built     == [i \in 1..Len(refs) |-> gobuild_Build(refs[i])]
        published == [i \in 1..Len(refs) |-> default_Publish(built[i].image, refs[i])]
        r         == ResolveRefs(refs, built, published)
    IN  [builder |-> "commands.NewBuilder", publisher |-> "commands.NewPublisher",
         compiles |-> Len(refs), registryCalls |-> Len(refs),
         err |-> r.err, images |-> r.images, refs |-> r.refs]

\* mutant: the dry resolver given the builder and publisher of the real one
dryResolver_Resolve_Real(refs) == resolver_Resolve(refs)

\* dryResolver.Resolve
dryResolver_Resolve(refs) ==
    LET built     == [i \in 1..Len(refs) |-> emptyBuilder_Build(refs[i])]
        published == [i \in 1..Len(refs) |-> emptyPublisher_Publish(built[i].image, refs[i])]
        r         == ResolveRefs(refs, built, published)
    IN  [builder |-> "emptyBuilder", publisher |-> "emptyPublisher",
         compiles |-> 0, registryCalls |-> 0,
         err |-> r.err, images |-> r.images, refs |-> r.refs]

RunResolve ==
    \E refs \in RefLists :
        /\ lastCall' = Called("resolver.Resolve", refs, resolver_Resolve(refs))
        /\ UNCHANGED <<buildVars, baseVars, resolveVars, procVars>>

RunDryResolve ==
    \E refs \in RefLists :
        /\ lastCall' = Called("dryResolver.Resolve", refs, dryResolver_Resolve(refs))
        /\ UNCHANGED <<buildVars, baseVars, resolveVars, procVars>>

(* loggingTransport.  A URL path is its sequence of "/" and segments. *)

Methods == {"GET", "HEAD", "PUT", "POST"}

Paths ==
    { <<"/", "v2", "/">>,
      <<"/", "v2">>,
      <<"/", "token", "/", "v2", "/">>,
      <<"/", "v2", "/", "test", "/", "manifests", "/", "latest">>,
      <<"/", "v2", "/", "test", "/", "blobs", "/", "sha256:abc123">> }

Statuses == {200, 201, 399, 400, 401, 403, 404, 500}

\* strings.HasSuffix
HasSuffix(p, suffix) ==
    /\ Len(p) >= Len(suffix)
    /\ SubSeq(p, Len(p) - Len(suffix) + 1, Len(p)) = suffix

\* mutant: every 401 and every 404 taken for protocol traffic
isExpectedProtocolResponse_ByStatus(method, path, status) == status \in {401, 404}

isExpectedProtocolResponse(method, path, status) ==
    \/ status = 401 /\ HasSuffix(path, <<"/", "v2", "/">>)
    \/ status = 404 /\ method = "HEAD"

\* logErrorDetails: the level of its one log line
logErrorDetails(method, path, status) ==
    IF isExpectedProtocolResponse(method, path, status)
    THEN {[msg |-> "registry response", level |-> "debug"]}
    ELSE {[msg |-> "registry error response", level |-> "error"]}

\* loggingTransport.RoundTrip: the log lines written for one request
RoundTrip ==
    \E method \in Methods, path \in Paths, status \in Statuses, failed \in BOOLEAN :
        /\ lastCall' = Called("RoundTrip",
                [method |-> method, path |-> path, status |-> status, failed |-> failed],
                IF failed
                THEN {[msg |-> "registry request", level |-> "trace"],
                      [msg |-> "registry request failed", level |-> "error"]}
                ELSE {[msg |-> "registry request", level |-> "trace"],
                      [msg |-> "registry response", level |-> "trace"]}
                        \cup (IF status >= 400 THEN logErrorDetails(method, path, status) ELSE {}))
        /\ UNCHANGED <<buildVars, baseVars, resolveVars, procVars>>

(* The bodies that pass through loggingTransport.RoundTrip *)

\* a body read without error
NoFail == 0 - 1

\* an io.ReadCloser: the bytes not yet read, and the number of them a reader
\* gets before a read fails (NoFail: every byte can be read)
NilBody == [nil |-> TRUE, unread |-> <<>>, failsAfter |-> NoFail]

Body(bytes, failsAfter) == [nil |-> FALSE, unread |-> bytes, failsAfter |-> failsAfter]

Bodies ==
    {NilBody, Body(<<>>, NoFail), Body(<<"b1", "b2">>, NoFail), Body(<<"b1", "b2">>, 1)}

\* Content-Type headers, cut where shouldLogBody looks
ContentTypes ==
    { <<"text/plain">>, <<"application/json">>,
      <<"application/vnd.oci", ".image.manifest.v1+json">>,
      <<"application/vnd.docker", ".distribution.manifest.v2+json">> }

\* io.ReadAll(body): the bytes read, the error, and the body as it is left
ReadAll(body) ==
    IF body.failsAfter = NoFail
    THEN [data |-> body.unread, err |-> FALSE, left |-> Body(<<>>, NoFail)]
    ELSE [data |-> SubSeq(body.unread, 1, body.failsAfter), err |-> TRUE,
          left |-> Body(SubSeq(body.unread, body.failsAfter + 1, Len(body.unread)), 0)]

\* io.NopCloser(bytes.NewReader(data))
NewReader(data) == Body(data, NoFail)

shouldLogBody(contentType) ==
    \E i \in 1..Len(contentType) :
        contentType[i] \in {"application/json", "application/vnd.oci", "application/vnd.docker"}

\* RoundTrip's capture of the request body: the req.Body the inner transport gets
CaptureRequestBody(body, contentType) ==
    IF ~body.nil /\ shouldLogBody(contentType)
    THEN LET r == ReadAll(body) IN IF r.err THEN r.left ELSE NewReader(r.data)
    ELSE body

\* logErrorDetails' capture of the response body: the resp.Body the caller gets
CaptureResponseBody(body) ==
    IF ~body.nil
    THEN LET r == ReadAll(body) IN IF r.err THEN r.left ELSE NewReader(r.data)
    ELSE body

\* loggingTransport.RoundTrip: the request the inner transport receives and the
\* response the caller receives (an inner transport that fails returns no response)
RoundTripBodies ==
    \E contentType \in ContentTypes, reqBody \in Bodies, respBody \in Bodies,
       status \in {200, 404, 500}, failed \in BOOLEAN, traceLevel \in BOOLEAN :
        /\ failed => respBody = NilBody /\ status = 500 /\ ~traceLevel
        /\ lastCall' = Called("RoundTrip.bodies",
                [contentType |-> contentType, reqBody |-> reqBody, respBody |-> respBody,
                 status |-> status, failed |-> failed, traceLevel |-> traceLevel],
                [innerBody |-> CaptureRequestBody(reqBody, contentType),
                 status |-> status,
                 respBody |-> IF ~failed /\ status >= 400 THEN CaptureResponseBody(respBody)
                              ELSE respBody])
        /\ UNCHANGED <<buildVars, baseVars, resolveVars, procVars>>

(* Read of the ko_resolve resource, in both generations *)

\* the IDs the host's state can hold for a ko_resolve resource: written by a
\* Create of either generation, or given to ImportState
StoredIDs == {ID(NewResolved(ResolveFilesToWriter(ds))) : ds \in SeqsUpTo(RawDocs, 1)}

\* resourceKoResolveRead (SDK generation): the state it leaves
resourceKoResolveRead(stored, ds) ==
    LET r == NewResolved(ResolveFilesToWriter(ds))
    IN  IF r.err THEN [err |-> TRUE, id |-> stored]
        ELSE [err |-> FALSE, id |-> IF ID(r) # stored THEN <<>> ELSE stored]

\* ResolveResource.Read (framework generation): the state it leaves
ResolveResource_Read(stored, ds) ==
    LET r == Resolve(ds)
    IN  IF r.err THEN [err |-> TRUE, id |-> stored]
        ELSE [err |-> FALSE, id |-> r.ID]

ReadResolve ==
    \E stored \in StoredIDs, ds \in DocLists :
        \/ /\ lastCall' = Called("resourceKoResolveRead", [stored |-> stored, docs |-> ds],
                               resourceKoResolveRead(stored, ds))
           /\ UNCHANGED <<buildVars, baseVars, resolveVars, procVars>>
        \/ /\ lastCall' = Called("ResolveResource.Read", [stored |-> stored, docs |-> ds],
                               ResolveResource_Read(stored, ds))
           /\ UNCHANGED <<buildVars, baseVars, resolveVars, procVars>>

\* a configuration with one repository and every optional attribute unset
DefaultConfig ==
    [resRepo |-> Null, provRepo |-> "prov", provDockerRepo |-> "", envRepo |-> "",
     ip |-> "cmd/a", sbom |-> "spdx", epoch |-> "", platforms |-> NullList, tags |-> NullList]

(* The generation whose doBuild takes includeTag: the reference Create stores *)
(* and the reference Read computes                                           *)

\* mutant: the digest-only form whatever the caller asks for
doBuildReference_DigestOnly(o, dig, includeTag) ==
    [name |-> namer(o), tag |-> "", digest |-> dig]

\* the reference a successful doBuild(ctx, opts, includeTag) returns
doBuildReference(o, dig, includeTag) ==
    IF includeTag /\ Len(o.tags) = 1
    THEN [name |-> namer(o), tag |-> o.tags[1], digest |-> dig]
    ELSE [name |-> namer(o), tag |-> "", digest |-> dig]

\* resourceKoBuildCreate and resourceKoBuildRead with a build (and publish)
\* that succeeds: the includeTag they pass, the reference doBuild returns to
\* them, and the reference they write to image_ref
BuildReference ==
    \E tags \in TagLists, dig \in Digests :
        LET c == [DefaultConfig EXCEPT !.tags = tags]
            o == fromData(c, NewProviderOpts(c))
        IN  \/ /\ lastCall' = Called("resourceKoBuildCreate", [opts |-> o, digest |-> dig],
                                   [includeTag |-> FALSE,
                                    built |-> doBuildReference(o, dig, FALSE),
                                    ref |-> PublishedReference(o, dig)])
               /\ UNCHANGED <<buildVars, baseVars, resolveVars, procVars>>
            \/ /\ lastCall' = Called("resourceKoBuildRead", [opts |-> o, digest |-> dig],
                                   [includeTag |-> TRUE,
                                    built |-> doBuildReference(o, dig, TRUE),
                                    ref |-> doBuildReference(o, dig, TRUE)])
               /\ UNCHANGED <<buildVars, baseVars, resolveVars, procVars>>

AuxInit == lastCall = NoCall

AuxNext ==
    \/ KeychainResolve \/ HandPlatforms \/ RunResolve \/ RunDryResolve \/ RoundTrip
    \/ ReadResolve \/ BuildReference \/ RoundTripBodies

----------------------------------------------------------------------------
(* State shared by the concurrent operations of one provider process (SDK   *)
(* generation): the *Opts that configure returns once and that every        *)
(* ko_resolve operation receives as meta, and the process environment.      *)

\* the ko_resolve resources of the configuration: base_image, tags, push
ResolveResources ==
    {[baseImage |-> "base-a", tags |-> <<"v1">>, push |-> TRUE],
     [baseImage |-> "base-b", tags |-> <<>>, push |-> FALSE]}

\* go_binary_path of the ko_build resources of the configuration ("" is unset)
GoBinaryPaths == {"", "/opt/go/bin/go"}

\* KO_GO_PATH in the environment the provider process starts with
StartEnvs == {"", "/usr/bin/go"}

\* configure: Opts{bo: &options.BuildOptions{}, po: &options.PublishOptions{...}}
NewOpts == [baseImage |-> "", tags |-> <<>>, push |-> FALSE]

NoOper == [kind |-> "none", baseImage |-> "", tags |-> <<>>, push |-> FALSE,
           goBinaryPath |-> ""]

NotUsed == [ran |-> FALSE, baseImage |-> "", tags |-> <<>>, push |-> FALSE,
            goBinary |-> ""]

\* NewResolver: r.bo and r.po are opts.bo and opts.po, the pointers held by
\* meta, and the resource's attributes are written through them
NewResolver(d, m) ==
    [m EXCEPT !.baseImage = d.baseImage,
              !.tags = IF Len(d.tags) = 0 THEN <<"latest">> ELSE d.tags,
              !.push = d.push]

\* resourceKoResolveCreate up to the call of r.Resolve
ResolveCreateStart(p) ==
    /\ opc[p] = "idle"
    /\ \E d \in ResolveResources :
        /\ meta' = NewResolver(d, meta)
        /\ oper' = [oper EXCEPT ![p] = [kind |-> "resolveCreate", baseImage |-> d.baseImage,
                                         tags |-> d.tags, push |-> d.push,
                                         goBinaryPath |-> ""]]
    /\ opc' = [opc EXCEPT ![p] = "resolving"]
    /\ used' = [used EXCEPT ![p] = NotUsed]
    /\ UNCHANGED koGoPath
    /\ UNCHANGED <<buildVars, baseVars, resolveVars, auxVars>>

\* resourceKoResolveRead up to the call of r.Resolve: NewResolver, then
\* r.po.Tags = []string{}
ResolveReadStart(p) ==
    /\ opc[p] = "idle"
    /\ \E d \in ResolveResources :
        /\ meta' = [NewResolver(d, meta) EXCEPT !.tags = <<>>]
        /\ oper' = [oper EXCEPT ![p] = [kind |-> "resolveRead", baseImage |-> d.baseImage,
                                         tags |-> d.tags, push |-> d.push,
                                         goBinaryPath |-> ""]]
    /\ opc' = [opc EXCEPT ![p] = "resolving"]
    /\ used' = [used EXCEPT ![p] = NotUsed]
    /\ UNCHANGED koGoPath
    /\ UNCHANGED <<buildVars, baseVars, resolveVars, auxVars>>

\* resolver.Resolve: commands.NewBuilder(ctx, r.bo) and commands.NewPublisher(r.po)
\* read the options behind the two pointers
ResolverResolve(p) ==
    /\ opc[p] = "resolving"
    /\ used' = [used EXCEPT ![p] = [ran |-> TRUE, baseImage |-> meta.baseImage,
                                     tags |-> meta.tags, push |-> meta.push,
                                     goBinary |-> ""]]
    /\ opc' = [opc EXCEPT ![p] = "idle"]
    /\ UNCHANGED <<meta, koGoPath, oper>>
    /\ UNCHANGED <<buildVars, baseVars, resolveVars, auxVars>>

\* buildOptions.makeBuilder of a ko_build operation: os.Setenv("KO_GO_PATH", ...)
\* when go_binary_path is set
MakeBuilderSetenv(p) ==
    /\ opc[p] = "idle"
    /\ \E g \in GoBinaryPaths :
        /\ koGoPath' = IF g # "" THEN [koGoPath EXCEPT !.now = g] ELSE koGoPath
        /\ oper' = [oper EXCEPT ![p] = [NoOper EXCEPT !.kind = "build", !.goBinaryPath = g]]
    /\ opc' = [opc EXCEPT ![p] = "building"]
    /\ used' = [used EXCEPT ![p] = NotUsed]
    /\ UNCHANGED meta
    /\ UNCHANGED <<buildVars, baseVars, resolveVars, auxVars>>

\* b.Build of doBuild: the go build runs the binary KO_GO_PATH names at that moment
GoBuild(p) ==
    /\ opc[p] = "building"
    /\ used' = [used EXCEPT ![p] = [NotUsed EXCEPT !.ran = TRUE, !.goBinary = koGoPath.now]]
    /\ opc' = [opc EXCEPT ![p] = "idle"]
    /\ UNCHANGED <<meta, koGoPath, oper>>
    /\ UNCHANGED <<buildVars, baseVars, resolveVars, auxVars>>

ProcInit ==
    /\ meta = NewOpts
    /\ koGoPath \in {[atStart |-> e, now |-> e] : e \in StartEnvs}
    /\ opc = [p \in Procs |-> "idle"]
    /\ oper = [p \in Procs |-> NoOper]
    /\ used = [p \in Procs |-> NotUsed]

ProcNext ==
    \E p \in Procs :
        \/ ResolveCreateStart(p)
        \/ ResolveReadStart(p)
        \/ ResolverResolve(p)
        \/ MakeBuilderSetenv(p)
        \/ GoBuild(p)

----------------------------------------------------------------------------
(* Specifications: one per component, the other components at rest *)

BuildRest == BuildInit /\ cfg = DefaultConfig /\ id = NoRef

BaseRest == BaseInit /\ remote["cgr.dev/chainguard/static"].mediaType = "image"

ResolveRest == ResolveInit /\ input = [i \in 1..2 |-> <<>>]

ProcRest == ProcInit /\ koGoPath.atStart = ""

\* the configurations the ko_build specification ranges over: every combination
\* of the repository sources and import paths, a valid and an invalid sbom
RepoConfigs == {c \in Configs : /\ c.epoch = "" /\ c.sbom \in {"spdx", "bogus"}
                                 /\ c.platforms = NullList /\ c.tags = NullList}

\* the configurations the build-options specification ranges over: one
\* repository, every sbom mode with every SOURCE_DATE_EPOCH, and every
\* platforms and tags attribute
OptConfigs ==
    {c \in Configs : /\ c.resRepo = Null /\ c.provRepo = "prov" /\ c.provDockerRepo = ""
                     /\ c.envRepo = "" /\ c.ip = "cmd/a"
                     /\ \/ c.platforms = NullList /\ c.tags = NullList
                        \/ c.sbom = "spdx" /\ c.epoch = ""}

Init == BuildInit /\ cfg \in RepoConfigs /\ BaseRest /\ ResolveRest /\ AuxInit /\ ProcRest

Next == BuildNext

Spec == Init /\ [][Next]_vars

InitOpts == BuildInit /\ cfg \in OptConfigs /\ BaseRest /\ ResolveRest /\ AuxInit /\ ProcRest

SpecOpts == InitOpts /\ [][Next]_vars

InitBase == BuildRest /\ BaseInit /\ ResolveRest /\ AuxInit /\ ProcRest

SpecBase == InitBase /\ [][BaseNext]_vars

InitResolve == BuildRest /\ BaseRest /\ ResolveInit /\ AuxInit /\ ProcRest

InitAux == BuildRest /\ BaseRest /\ ResolveRest /\ AuxInit /\ ProcRest

SpecAux == InitAux /\ [][AuxNext]_vars

SpecResolve == InitResolve /\ [][ResolveNext]_vars

InitProc == BuildRest /\ BaseRest /\ ResolveRest /\ AuxInit /\ ProcInit

SpecProc == InitProc /\ [][ProcNext]_vars

----------------------------------------------------------------------------
(* Claims *)

Transient(resp) == isManifestInvalidError(resp.err)

Succeeded(resp) == resp.err = NoErr

AllTransient(rs) == \A i \in 1..Len(rs) : Transient(rs[i])

PublishedRef == [name |-> namer(opts), tag |-> "", digest |-> res]

\* C1: when the registry answers MANIFEST_INVALID twice and then accepts the
\* manifest, doPublish is still running after each of the two failures and
\* succeeds on the 3rd attempt: 3 p.Publish calls, 3 manifest pushes, 2 sleeps,
\* and a single blob upload (none if the registry already held the blobs);
\* Create stores the published reference.
C1_RetrySucceedsOnThirdAttempt ==
    /\ (Len(responses) \in 1..2 /\ AllTransient(responses)) =>
            (~last.done /\ pc \in {"sleeping", "publishing"})
    /\ (Len(responses) = 3 /\ Transient(responses[1]) /\ Transient(responses[2])
            /\ Succeeded(responses[3])) =>
            /\ last = Finished("create", "none", NoErr)
            /\ pc = "idle"
            /\ attempt = 3
            /\ cnt.publishCalls = 3
            /\ cnt.manifestPushes = 3
            /\ cnt.sleeps = 2
            /\ cnt.blobUploads = (IF cnt.fresh THEN 1 ELSE 0)
            /\ id = PublishedRef
            /\ imageRef = PublishedRef

C1_Witness ==
    /\ Len(responses) = 3
    /\ Transient(responses[1]) /\ Transient(responses[2]) /\ Succeeded(responses[3])
    /\ last = Finished("create", "none", NoErr)
    /\ cnt.fresh
    /\ cnt.blobUploads = 1
    /\ cnt.manifestPushes = 3

\* C2: a publish error outside the MANIFEST_INVALID class ends doPublish at once:
\* it is the last answer received, no sleep follows it, Create returns that error
\* and stores nothing; when it is the first answer, exactly 1 attempt was made
\* and nothing slept.
C2_NonTransientNotRetried ==
    \A i \in 1..Len(responses) :
        (~Succeeded(responses[i]) /\ ~Transient(responses[i])) =>
            /\ i = Len(responses)
            /\ last = Finished("create", "error", responses[i].err)
            /\ pc = "idle"
            /\ cnt.publishCalls = i
            /\ cnt.sleeps = i - 1
            /\ attempt = i
            /\ id = NoRef
            /\ (i = 1 => cnt.publishCalls = 1 /\ cnt.sleeps = 0 /\ cnt.slept = 0)

C2_Witness ==
    /\ Len(responses) = 1
    /\ ~Succeeded(responses[1]) /\ ~Transient(responses[1])
    /\ last = Finished("create", "error", responses[1].err)
    /\ cnt.publishCalls = 1
    /\ cnt.sleeps = 0

\* C3: doPublish never makes more than maxAttempts (3) attempts; it sleeps
\* retryDelay (1 second) exactly between consecutive attempts; when every answer
\* is MANIFEST_INVALID it ends after 3 attempts and 2 sleeps with that error, no
\* sleep following the last attempt; and while it has not ended it can take a step.
C3_TransientRetryBoundedAndTerminates ==
    /\ attempt <= maxAttempts
    /\ cnt.publishCalls <= maxAttempts
    /\ cnt.sleeps <= maxAttempts - 1
    /\ cnt.slept = cnt.sleeps * retryDelay
    /\ pc = "publishing" => (cnt.publishCalls = attempt - 1 /\ cnt.sleeps = attempt - 1)
    /\ pc = "sleeping" => (cnt.publishCalls = attempt /\ cnt.sleeps = attempt - 1)
    /\ pc # "idle" => ENABLED (PublishAttempt \/ PublishSleep)
    /\ (Len(responses) = maxAttempts /\ AllTransient(responses)) =>
            /\ last = Finished("create", "error", responses[maxAttempts].err)
            /\ pc = "idle"
            /\ cnt.publishCalls = 3
            /\ cnt.sleeps = 2
            /\ cnt.slept = 2
            /\ id = NoRef

C3_Witness ==
    /\ Len(responses) = 3
    /\ AllTransient(responses)
    /\ last.done /\ last.severity = "error"
    /\ cnt.sleeps = 2

\* C4 as claimed: at most one remote fetch per reference string, under every interleaving.
C4_AtMostOneFetchPerString == \A s \in GoodRefs : fetches[s] <= 1

\* C4 as amended: a lookup fetches only if it found no entry for its string;
\* a lookup that starts after an entry was stored for its string never fetches
\* (it is answered from the cache).
C4_NoFetchOnceStored ==
    /\ \A s \in GoodRefs : lateFetches[s] = 0
    /\ \A p \in Procs : bpc[p] \in {"get", "store"} => ~hitAtStart[p]
    /\ \A p \in Procs : (bpc[p] = "idle" /\ hitAtStart[p]) => bret[p].kind \in {"cached", "panic"}

C4_Witness ==
    \E p \in Procs :
        /\ bpc[p] = "idle"
        /\ hitAtStart[p]
        /\ bret[p].kind = "cached"
        /\ fetches[bref[p]] = 1

RepoUnset(c) == Get(c.resRepo) = "" /\ c.provRepo = "" /\ c.provDockerRepo = "" /\ c.envRepo = ""

\* C5 as claimed: with no repository resolvable from the resource, the provider
\* or KO_DOCKER_REPO, every Create and every Read fails with the configuration
\* error that names the three sources, and no builder is constructed, no build
\* run and no registry contacted.
C5_RepoUnsetFailsCreateAndRead ==
    (last.done /\ last.op \in {"create", "read"} /\ RepoUnset(cfg)) =>
        /\ last.severity = "error"
        /\ last.err = ErrRepoUnset
        /\ Cardinality(last.err.names) = 3
        /\ cnt.builders = 0
        /\ cnt.builds = 0
        /\ cnt.publishers = 0
        /\ cnt.publishCalls = 0

FirstSet(a, b, c, d) == IF a # "" THEN a ELSE IF b # "" THEN b ELSE IF c # "" THEN c ELSE d

\* C6 as claimed: resource repo, then KO_DOCKER_REPO, then the provider's default.
C6_ResourceThenEnvThenProvider ==
    /\ (last.done /\ last.op # "none") =>
            opts.imageRepo = FirstSet(Get(cfg.resRepo), cfg.envRepo, cfg.provRepo, cfg.provDockerRepo)
    /\ fwData # NoFw =>
            fwData.repo = (IF cfg.resRepo # Null THEN cfg.resRepo
                           ELSE FirstSet(cfg.envRepo, cfg.provRepo, "", ""))

\* C6 as amended: the resource's repo attribute, if set, then the provider's
\* repo option, then KO_DOCKER_REPO (and last the provider's deprecated
\* docker_repo option).
C6_ResourceThenProviderThenEnv ==
    /\ (last.done /\ last.op # "none") =>
            opts.imageRepo = FirstSet(Get(cfg.resRepo), cfg.provRepo, cfg.envRepo, cfg.provDockerRepo)
    /\ fwData # NoFw =>
            fwData.repo = (IF cfg.resRepo # Null THEN cfg.resRepo
                           ELSE FirstSet(cfg.provRepo, cfg.envRepo, "", ""))

C6_Witness ==
    /\ last.done /\ last.op = "create"
    /\ cfg.resRepo = Null /\ cfg.provRepo = "prov" /\ cfg.envRepo = "env"
    /\ opts.imageRepo = "prov"
    /\ fwData.repo = "prov"

\* C7: with the provider's repo option set and no repo on the resource, the
\* provider's repo is the one used, whatever KO_DOCKER_REPO holds; and the
\* value of KO_DOCKER_REPO is the repo used only if neither the resource nor
\* the provider's repo option is set.
C7_ProviderRepoOverridesEnv ==
    /\ (last.done /\ last.op # "none" /\ Get(cfg.resRepo) = "" /\ cfg.provRepo # "") =>
            opts.imageRepo = cfg.provRepo
    /\ (last.done /\ last.op # "none" /\ opts.imageRepo = "env") =>
            (Get(cfg.resRepo) = "" /\ cfg.provRepo = "")
    /\ (fwData # NoFw /\ cfg.resRepo = Null /\ cfg.provRepo # "") => fwData.repo = cfg.provRepo
    /\ (fwData # NoFw /\ fwData.repo = "env") => (cfg.resRepo = Null /\ cfg.provRepo = "")

C7_Witness ==
    /\ last.done /\ last.op = "create" /\ last.severity = "none"
    /\ cfg.resRepo = Null /\ cfg.provRepo = "prov" /\ cfg.envRepo = "env"
    /\ imageRef.name = <<"prov", cfg.ip>>
    /\ fwData = [repo |-> "prov", bare |-> FALSE]

\* C8: bare naming is used exactly when the resource sets repo; then the name
\* of the image a Create publishes, or a Read computes, is the configured repo
\* alone, whatever the import path; otherwise it is the repo followed by the
\* import path.
C8_BareIffResourceRepo ==
    /\ (last.done /\ last.op # "none") => (opts.bare <=> Get(cfg.resRepo) # "")
    /\ fwData # NoFw => (fwData.bare <=> cfg.resRepo # Null)
    /\ (last.done /\ last.op # "none" /\ last.severity = "none") =>
            /\ imageRef.digest \in Digests
            /\ imageRef.name = (IF Get(cfg.resRepo) # "" THEN <<cfg.resRepo>>
                                ELSE <<opts.imageRepo, cfg.ip>>)

C8_Witness ==
    /\ last = Finished("create", "none", NoErr)
    /\ cfg.resRepo = "res"
    /\ cfg.ip = "Cmd/X"
    /\ opts.bare
    /\ id.name = <<"res">>

\* the meaning of a written document: its tokens without the formatting; a null
\* document means nothing
Meaning(doc) == SelectSeq(doc, LAMBDA t : t \notin Formatting)

IsNullDoc(doc) == Meaning(doc) \in {<<>>, <<"~">>}

\* the semantic content of a stream: the meanings of its non-null documents, in order
Sem(ds) == [i \in 1..Len(SelectSeq(ds, LAMBDA d : ~IsNullDoc(d))) |->
                Meaning(SelectSeq(ds, LAMBDA d : ~IsNullDoc(d))[i])]

BothResolved == \A i \in 1..2 : resolved[i].done /\ ~resolved[i].err

\* C9: the identity Resolved.ID() of what NewResolved makes of two streams is
\* the same exactly when the streams have the same non-null documents with the
\* same content in the same order; formatting and null documents do not count.
C9_IdentityIffSameContent ==
    BothResolved => (ID(resolved[1]) = ID(resolved[2]) <=> Sem(input[1]) = Sem(input[2]))

C9_Witness ==
    /\ BothResolved
    /\ ResolveFilesToWriter(input[1]) # ResolveFilesToWriter(input[2])
    /\ Len(resolved[1].Manifests) = 2
    /\ ID(resolved[1]) = ID(resolved[2])

BothFwResolved == \A i \in 1..2 : fwResolved[i].done /\ ~fwResolved[i].err

\* C10 as claimed: the ID Resolver.Resolve returns is a content identity of the
\* resolved output: resolves with different manifests get different IDs, and
\* resolves of the same stream get the same ID.
C10_ResolveIDIsContentIdentity ==
    BothFwResolved =>
        /\ fwResolved[1].Manifests # fwResolved[2].Manifests => fwResolved[1].ID # fwResolved[2].ID
        /\ ResolveFilesToWriter(input[1]) = ResolveFilesToWriter(input[2]) =>
                fwResolved[1].ID = fwResolved[2].ID

Unparsable(doc) == \E t \in 1..Len(doc) : doc[t] = "{"

\* what splitting the stream of the documents ds must give
SplitAsClaimed(ds, r) ==
    IF \E k \in 1..Len(ds) : Unparsable(ds[k])
    THEN r.err /\ r.Manifests = <<>>
    ELSE /\ ~r.err
         /\ Len(r.Manifests) = Len(Sem(ds))
         /\ \A k \in 1..Len(Sem(ds)) : r.Manifests[k] = Encode(Sem(ds)[k])

\* C11: splitting the resolved stream gives one manifest per non-null document,
\* in stream order, each the re-encoding of that document; null documents give
\* no entry; and if a document does not decode, an error and no manifest at
\* all.  Both NewResolved and Resolver.Resolve.
C11_OneManifestPerNonNullDoc ==
    \A i \in 1..2 :
        /\ resolved[i].done => SplitAsClaimed(input[i], resolved[i])
        /\ fwResolved[i].done => SplitAsClaimed(input[i], fwResolved[i])

C11_Witness ==
    /\ resolved[1].done /\ fwResolved[1].done
    /\ Len(input[1]) = 2
    /\ IsNullDoc(input[1][1])
    /\ ~resolved[1].err
    /\ Len(resolved[1].Manifests) = 1
    /\ resolved[2].done /\ resolved[2].err
    /\ Len(input[2]) = 2 /\ ~Unparsable(input[2][1]) /\ ~IsNullDoc(input[2][1])

C13_ReadAfterCreateKeepsID ==
    [][(/\ Read
        /\ last = Finished("create", "none", NoErr)
        /\ last'.err = NoErr
        /\ imageRef'.digest = id.digest) => (imageRef' = id /\ id' = id)]_vars

FourModes == {"spdx", "cyclonedx", "go.version-m", "none"}

Operated == last.done /\ last.op \in {"create", "read"}

C15_BadEpochFailsEveryOperation ==
    (Operated /\ cfg.sbom \in validTypes) =>
        /\ (cfg.epoch # "" /\ ~ParsesAsInt(cfg.epoch)) =>
                /\ last.severity = "error"
                /\ last.err = Err("bad_source_date_epoch")
                /\ cnt.builders = 0
                /\ cnt.builds = 0
        /\ cfg.epoch = "" => last.err.kind # "bad_source_date_epoch"

\* C16: the multi-keychain of a build hands out the configured basic-auth
\* username and password exactly for the registry host of the configured
\* target repository; for every other host the static keychain answers
\* anonymous, and what is offered then never holds the configured password.
C16_StaticCredentialsOnlyForRepoHost ==
    lastCall.op = "Resolve" =>
        LET in  == lastCall.in
            out == lastCall.out
            own == in.basic.set /\ ~ParseRepo(in.repo).err
                        /\ in.host = ParseRepo(in.repo).registry
        IN  /\ own => out.auth = [kind |-> "static", username |-> Basic.username,
                                  password |-> Basic.password]
            /\ ~own => (out.auth.kind # "static" /\ out.auth.password # Basic.password)
            /\ (in.basic.set /\ ~ParseRepo(in.repo).err /\ ~own) =>
                    staticKeychain_Resolve(in.repo, in.basic, in.host).auth = Anonymous

C16_Witness ==
    /\ lastCall.op = "Resolve"
    /\ lastCall.in = [repo |-> <<"gcr.io", "proj">>, basic |-> Basic, host |-> "gcr.io"]
    /\ lastCall.out.auth.password = "hunter2"

\* C17 as claimed: whatever the platforms attribute holds (unset, an empty
\* list, or values), the list handed to the builder is not empty; in all
\* three places that hand it over.
C17_PlatformsNeverEmpty ==
    /\ lastCall.op = "WithPlatforms" => Len(lastCall.out) > 0
    /\ (last.done /\ last.op # "none") => Len(opts.platforms) > 0

\* C18: the dry resolver compiles nothing and contacts no registry: it runs
\* with the no-op builder and the no-op publisher only; every image is the
\* empty image and every reference is the import path it was given, unchanged;
\* it fails only if an import path does not parse as a reference.
C18_DryResolveBuildsAndPushesNothing ==
    lastCall.op = "dryResolver.Resolve" =>
        LET refs == lastCall.in
            out  == lastCall.out
        IN  /\ out.builder = "emptyBuilder"
            /\ out.publisher = "emptyPublisher"
            /\ out.compiles = 0
            /\ out.registryCalls = 0
            /\ out.err <=> \E i \in 1..Len(refs) : refs[i] = "ko://example.com/Cmd/X"
            /\ ~out.err =>
                    /\ out.refs = refs
                    /\ out.images = [i \in 1..Len(refs) |-> "empty.Image"]

C18_Witness ==
    /\ lastCall.op = "dryResolver.Resolve"
    /\ Len(lastCall.in) = 2
    /\ ~lastCall.out.err
    /\ lastCall.out.refs = lastCall.in

EndsInV2Slash(path) ==
    /\ Len(path) >= 3
    /\ path[Len(path)] = "/"
    /\ path[Len(path) - 1] = "v2"
    /\ path[Len(path) - 2] = "/"

ErrorLogged(lines) == \E l \in lines : l.level = "error"

DebugLogged(lines) == \E l \in lines : l.level = "debug"

\* C19: a registry response is logged at error level exactly when its status
\* is at least 400 and it is neither a 401 on a path ending in /v2/ nor a
\* 404 answer to a HEAD request; those two are logged at debug level; a
\* response below 400 is never logged as an error.
C19_ResponseClassification ==
    (lastCall.op = "RoundTrip" /\ ~lastCall.in.failed) =>
        LET in       == lastCall.in
            expected == \/ in.status = 401 /\ EndsInV2Slash(in.path)
                        \/ in.status = 404 /\ in.method = "HEAD"
        IN  /\ ErrorLogged(lastCall.out) <=> (in.status >= 400 /\ ~expected)
            /\ expected => (DebugLogged(lastCall.out) /\ ~ErrorLogged(lastCall.out))
            /\ in.status < 400 => (~ErrorLogged(lastCall.out) /\ ~DebugLogged(lastCall.out))

C19_Witness ==
    /\ lastCall.op = "RoundTrip"
    /\ ~lastCall.in.failed
    /\ lastCall.in.status = 401
    /\ lastCall.in.method = "GET"
    /\ lastCall.in.path = <<"/", "token", "/", "v2", "/">>
    /\ DebugLogged(lastCall.out)

\* C20 as claimed: once a value is stored in the base-image cache under a
\* reference string, the entry is never removed or replaced, so every later
\* lookup of that string returns that value; under every interleaving, and
\* whatever is pushed to the remote tag in between.
C20_CacheEntryNeverReplaced ==
    [][\A s \in GoodRefs :
            baseCache[s].present =>
                /\ baseCache'[s] = baseCache[s]
                /\ \A p \in Procs :
                        (bpc[p] = "load" /\ bpc'[p] = "idle" /\ bref[p] = s) =>
                            bret'[p] \in {[kind |-> "cached", val |-> baseCache[s].val],
                                          [kind |-> "panic", val |-> Nil]}]_vars

----------------------------------------------------------------------------
(* Concurrent operations of one process *)

\* the tag list NewResolver installs for a resource
ConfiguredTags(o) == IF Len(o.tags) = 0 THEN <<"latest">> ELSE o.tags

IsResolve(p) == oper[p].kind \in {"resolveCreate", "resolveRead"}

\* C21 as claimed: each resolve operation owns its BuildOptions and
\* PublishOptions: the base image, the tags and the push flag that its build
\* and publish ran with are exactly those of its own resource configuration
\* (the tags emptied when the operation is a Read), whatever the other
\* operation did before or in between.
C21_ResolveOptionsOwnedByOperation ==
    \A p \in Procs :
        IsResolve(p) /\ used[p].ran =>
            /\ used[p].baseImage = oper[p].baseImage
            /\ used[p].push = oper[p].push
            /\ used[p].tags = IF oper[p].kind = "resolveRead" THEN <<>>
                              ELSE ConfiguredTags(oper[p])

\* C22 as claimed: Read detects a no-op by identity: a Read of a ko_resolve
\* resource that resolves keeps the stored ID when the identity it recomputed
\* equals the stored ID, and otherwise clears the ID (in both generations; the
\* Read of ko_build compares the image reference in the same way).
C22_ReadKeepsIDIffIdentityEqual ==
    /\ lastCall.op = "resourceKoResolveRead" /\ ~lastCall.out.err =>
          lastCall.out.id =
              IF ID(NewResolved(ResolveFilesToWriter(lastCall.in.docs))) = lastCall.in.stored
              THEN lastCall.in.stored ELSE <<>>
    /\ lastCall.op = "ResolveResource.Read" /\ ~lastCall.out.err =>
          lastCall.out.id =
              IF Resolve(lastCall.in.docs).ID = lastCall.in.stored
              THEN lastCall.in.stored ELSE <<>>

C24_ReadNeverPublishes ==
    /\ last.op = "read" =>
          /\ cnt.publishers = 0 /\ cnt.publishCalls = 0
          /\ cnt.blobUploads = 0 /\ cnt.manifestPushes = 0
          /\ pc = "idle"
    /\ cnt.publishers > 0 \/ cnt.publishCalls > 0 =>
          /\ last.op = "create"
          /\ cnt.builds = 1
          /\ res \in Digests

\* a Read whose build succeeded has finished
C24_Witness ==
    /\ last.op = "read"
    /\ last.done
    /\ last.severity = "none"
    /\ cnt.builds = 1
    /\ imageRef.digest \in Digests

\* C25 as claimed: Read of ko_resolve never applies tags and never takes them
\* from a Create: the publisher a Read resolves with has the empty tag list
\* whatever the resource configures, and the publisher a Create resolves with
\* has the tags NewResolver installed for its resource, never the empty list
\* a Read installed.
C25_ReadPublishesUntaggedCreateTagged ==
    \A p \in Procs :
        used[p].ran =>
            /\ oper[p].kind = "resolveRead" => used[p].tags = <<>>
            /\ oper[p].kind = "resolveCreate" => used[p].tags # <<>>

\* C30 as claimed: the Go binary a build runs depends only on its own
\* resource's go_binary_path: the configured path when it is set, and
\* otherwise the KO_GO_PATH the process started with, whichever other
\* resources were built before or are being built at the same time.
C30_GoBinaryFromOwnResourceOnly ==
    \A p \in Procs :
        oper[p].kind = "build" /\ used[p].ran =>
            used[p].goBinary = IF oper[p].goBinaryPath # "" THEN oper[p].goBinaryPath
                               ELSE koGoPath.atStart

\* C27: Create of ko_build is all-or-nothing, in a fixed order: a publisher is
\* made and publish is called only after the build succeeded; ID and image_ref
\* are written only by the step in which publish succeeds, both with the
\* published reference; every other step of a Create, and a Create that ends
\* with an error (from the build or from publish), writes neither, so the ID
\* stays unset.
C27_CreateAllOrNothing ==
    [][/\ last'.op = "create" /\ ~(last'.done /\ last'.severity = "none") =>
            /\ id' = id /\ imageRef' = imageRef
            /\ id' = NoRef
       /\ last'.op = "create" /\ last'.done /\ last'.severity = "error" =>
            /\ last'.err # NoErr
            /\ pc' = "idle"
       /\ last'.op = "create" /\ pc' # "idle" =>
            cnt'.builds = 1 /\ res' \in Digests
       /\ id' # id /\ id' # NoRef =>
            /\ pc = "publishing" /\ cnt.builds = 1
            /\ responses'[Len(responses')].err = NoErr
            /\ last' = Finished("create", "none", NoErr)
            /\ id' = PublishedReference(opts, res) /\ imageRef' = id'
      ]_vars

\* a Create whose build succeeded and whose publish failed has ended with an
\* error, the ID unset
C27_Witness ==
    /\ last.op = "create" /\ last.done /\ last.severity = "error"
    /\ cnt.builds = 1 /\ cnt.publishCalls >= 1
    /\ id = NoRef

C28_FailedLookupStoresNothing ==
    /\ \A s \in GoodRefs :
          baseCache[s].present =>
              /\ baseCache[s].kind \in {"image", "index"}
              /\ baseCache[s].val # Nil
    /\ \A p \in Procs : bret[p].kind # "panic"

\* C26 as claimed: the logging transport is transparent: for every request,
\* status code and log level the inner transport receives the request body
\* unchanged, and the caller receives the inner transport's status and a
\* response body that still reads as the inner transport returned it; capturing
\* a body for the log never consumes it.
C26_LoggingTransportTransparent ==
    lastCall.op = "RoundTrip.bodies" =>
        /\ lastCall.out.innerBody = lastCall.in.reqBody
        /\ lastCall.out.status = lastCall.in.status
        /\ lastCall.out.respBody = lastCall.in.respBody

====
